---- MODULE Spec2Model ----
(***************************************************************************)
(* Model of the injector calculator (App.tsx, latest revision             *)
(* src/unnamed/part_002): the row store held in React state, its event    *)
(* handlers, and the render pipeline (validator, regression, derived      *)
(* metrics, formatted texts) that is recomputed from the rows on every    *)
(* render.                                                                 *)
(*                                                                         *)
(* Numbers are JavaScript numbers.  A value is a record [k, n, d]:        *)
(*   k = "undefined"  the field was never assigned                         *)
(*   k = "NaN"        not-a-number                                         *)
(*   k = "inf"        +Infinity (n = 1) or -Infinity (n = -1)              *)
(*   k = "fin"        the rational n/d in lowest terms, d > 0              *)
(* Finite arithmetic is exact (binary rounding of doubles and the sign of *)
(* zero are not modelled); NaN, the infinities and undefined follow the   *)
(* language's rules.                                                       *)
(***************************************************************************)
EXTENDS Integers, Sequences, FiniteSets, TLC

VARIABLES rows, nextId, focus

vars == <<rows, nextId, focus>>

(***************************************************************************)
(* Bounds of the model.                                                    *)
(***************************************************************************)
\* Most rows the store holds at once (appending is disabled beyond it).
MaxRows == 3
\* Most rows ever created in a session (caps the nextId counter).
MaxIds == 3

(***************************************************************************)
(* JavaScript numbers.                                                     *)
(***************************************************************************)
Abs(i) == IF i < 0 THEN -i ELSE i

RECURSIVE Gcd(_, _)
Gcd(a, b) == IF b = 0 THEN a ELSE Gcd(b, a % b)

Undefined == [k |-> "undefined", n |-> 0, d |-> 1]
NaN == [k |-> "NaN", n |-> 0, d |-> 1]
Inf(s) == [k |-> "inf", n |-> s, d |-> 0]

\* The rational n/d (d # 0) in lowest terms.
Fin(n, d) ==
  LET s == IF d < 0 THEN -1 ELSE 1
      g == Gcd(Abs(n), Abs(d))
  IN  [k |-> "fin", n |-> (s * n) \div g, d |-> (s * d) \div g]

Num(i) == Fin(i, 1)

Sign(i) == IF i < 0 THEN -1 ELSE 1

\* ToNumber: undefined converts to NaN in arithmetic.
ToNumber(x) == IF x.k = "undefined" THEN NaN ELSE x

\* isNaN(x)
IsNaN(x) == ToNumber(x).k = "NaN"

\* ToBoolean of a number or undefined: undefined, NaN and 0 are falsy.
Truthy(x) ==
  CASE x.k = "undefined" -> FALSE
    [] x.k = "NaN" -> FALSE
    [] x.k = "inf" -> TRUE
    [] OTHER -> x.n # 0

IsFinite(x) == x.k = "fin"

Neg(x0) ==
  LET x == ToNumber(x0)
  IN  CASE x.k = "NaN" -> NaN
        [] x.k = "inf" -> Inf(-x.n)
        [] OTHER -> Fin(-x.n, x.d)

Add(x0, y0) ==
  LET x == ToNumber(x0)
      y == ToNumber(y0)
  IN  CASE x.k = "NaN" \/ y.k = "NaN" -> NaN
        [] x.k = "inf" /\ y.k = "inf" -> IF x.n = y.n THEN x ELSE NaN
        [] x.k = "inf" -> x
        [] y.k = "inf" -> y
        [] OTHER -> Fin(x.n * y.d + y.n * x.d, x.d * y.d)

Sub(x, y) == Add(x, Neg(y))

Mul(x0, y0) ==
  LET x == ToNumber(x0)
      y == ToNumber(y0)
  IN  CASE x.k = "NaN" \/ y.k = "NaN" -> NaN
        [] x.k = "inf" \/ y.k = "inf" ->
             IF x.n = 0 \/ y.n = 0 THEN NaN ELSE Inf(Sign(x.n) * Sign(y.n))
        [] OTHER -> Fin(x.n * y.n, x.d * y.d)

Div(x0, y0) ==
  LET x == ToNumber(x0)
      y == ToNumber(y0)
  IN  CASE x.k = "NaN" \/ y.k = "NaN" -> NaN
        [] x.k = "inf" /\ y.k = "inf" -> NaN
        [] x.k = "inf" -> Inf(x.n * Sign(y.n))
        [] y.k = "inf" -> Num(0)
        [] y.n = 0 -> IF x.n = 0 THEN NaN ELSE Inf(Sign(x.n))
        [] OTHER -> Fin(x.n * y.d, x.d * y.n)

\* Floor of the rational n/d, d > 0 (\div rounds toward minus infinity).
Floor(n, d) == n \div d

\* Math.round: the nearest integer, ties toward +Infinity.
MathRound(x0) ==
  LET x == ToNumber(x0)
  IN  IF x.k = "fin" THEN Num(Floor(2 * x.n + x.d, 2 * x.d)) ELSE x

\* round(number, precision) of the regression package:
\* Math.round(number * 10^precision) / 10^precision.
RECURSIVE Pow(_, _)
Pow(b, e) == IF e = 0 THEN 1 ELSE b * Pow(b, e - 1)

round(number, precision) ==
  LET factor == Num(Pow(10, precision))
  IN  Div(MathRound(Mul(number, factor)), factor)

(***************************************************************************)
(* parseFloat.  A raw input is a sequence of one-character strings.  The   *)
(* longest prefix that is a decimal literal is converted: leading blanks,  *)
(* an optional sign, then "Infinity" or digits with an optional fraction   *)
(* (exponents are not modelled; no raw input of the model has one).  No    *)
(* such prefix gives NaN.                                                  *)
(***************************************************************************)
Digits == <<"0", "1", "2", "3", "4", "5", "6", "7", "8", "9">>

IsDigit(c) == \E i \in 1..10 : Digits[i] = c

DigitVal(c) == (CHOOSE i \in 1..10 : Digits[i] = c) - 1

Drop(s, k) == SubSeq(s, k + 1, Len(s))

RECURSIVE SkipBlanks(_)
SkipBlanks(s) ==
  IF s # <<>> /\ Head(s) = " " THEN SkipBlanks(Tail(s)) ELSE s

\* Length of the longest prefix of s made of digits.
RECURSIVE DigitPrefixLen(_)
DigitPrefixLen(s) ==
  IF s # <<>> /\ IsDigit(Head(s)) THEN 1 + DigitPrefixLen(Tail(s)) ELSE 0

\* Value of a sequence of digits read as a decimal integer.
RECURSIVE DigitsVal(_)
DigitsVal(s) ==
  IF s = <<>> THEN 0
  ELSE 10 * DigitsVal(SubSeq(s, 1, Len(s) - 1)) + DigitVal(s[Len(s)])

InfinityLiteral == <<"I", "n", "f", "i", "n", "i", "t", "y">>

StartsWith(s, p) == Len(s) >= Len(p) /\ SubSeq(s, 1, Len(p)) = p

parseFloat(raw) ==
  LET t == SkipBlanks(raw)
      signed == t # <<>> /\ Head(t) \in {"+", "-"}
      sgn == IF signed /\ Head(t) = "-" THEN -1 ELSE 1
      body == IF signed THEN Tail(t) ELSE t
      ni == DigitPrefixLen(body)
      afterInt == Drop(body, ni)
      hasDot == afterInt # <<>> /\ Head(afterInt) = "."
      nf == IF hasDot THEN DigitPrefixLen(Tail(afterInt)) ELSE 0
      intPart == SubSeq(body, 1, ni)
      fracPart == IF hasDot THEN SubSeq(Tail(afterInt), 1, nf) ELSE <<>>
  IN  IF StartsWith(body, InfinityLiteral) THEN Inf(sgn)
      ELSE IF ni = 0 /\ nf = 0 THEN NaN
      ELSE Fin(sgn * (DigitsVal(intPart) * Pow(10, nf) + DigitsVal(fracPart)),
               Pow(10, nf))

(***************************************************************************)
(* Number.prototype.toFixed(digits) and formatRowValue.  The result is the *)
(* text shown to the user.                                                 *)
(***************************************************************************)
\* The decimal digits of v, left-padded with zeros to width w.
RECURSIVE ZeroPad(_, _)
ZeroPad(v, w) ==
  IF w = 0 THEN ""
  ELSE ZeroPad(v \div 10, w - 1) \o ToString(v % 10)

toFixed(x, digits) ==
  CASE x.k = "NaN" -> "NaN"
    [] x.k = "inf" -> IF x.n < 0 THEN "-Infinity" ELSE "Infinity"
    [] OTHER ->
         LET p == Pow(10, digits)
             \* the integer m with m / 10^digits closest to |x|, the larger on a tie
             m == Floor(2 * Abs(x.n) * p + x.d, 2 * x.d)
         IN  (IF x.n < 0 THEN "-" ELSE "")
               \o ToString(m \div p)
               \o (IF digits = 0 THEN "" ELSE "." \o ZeroPad(m % p, digits))

formatRowValue(val) ==
  IF val.k = "undefined" \/ IsNaN(val) THEN "" ELSE toFixed(val, 1)

(***************************************************************************)
(* Rows.                                                                   *)
(***************************************************************************)
\* makeRow(): a row with the next id, no fields, included in the regression.
makeRow(id) ==
  [id |-> id, injections |-> Undefined, pulseWidth |-> Undefined,
   totalMass |-> Undefined, includeInRegression |-> TRUE]

\* rowIsValid: every field truthy (defined, not 0, not NaN) and not NaN.
rowIsValid(row) ==
  /\ Truthy(row.injections) /\ Truthy(row.pulseWidth) /\ Truthy(row.totalMass)
  /\ ~IsNaN(row.injections) /\ ~IsNaN(row.pulseWidth) /\ ~IsNaN(row.totalMass)

(***************************************************************************)
(* regression.linear(data) of the npm package "regression" (2.x), which    *)
(* App.tsx imports and calls with no options, so its defaults apply:       *)
(* DEFAULT_OPTIONS = { order: 2, precision: 2, period: null }.             *)
(*   sum = [Sx, Sy, Sxx, Sxy, Syy] over the points, len = their number     *)
(*   run  = len * Sxx - Sx * Sx                                            *)
(*   rise = len * Sxy - Sx * Sy                                            *)
(*   gradient  = run === 0 ? 0 : round(rise / run, precision)              *)
(*   intercept = round(Sy / len - gradient * Sx / len, precision)          *)
(*   predict(x) = [round(x, precision),                                    *)
(*                 round(gradient * x + intercept, precision)]             *)
(*   equation = [gradient, intercept]                                      *)
(***************************************************************************)
\* options.precision when the caller passes no options
precision == 2

\* Left-to-right sum of a sequence of numbers, starting from 0.
RECURSIVE SumSeq(_)
SumSeq(xs) ==
  IF xs = <<>> THEN Num(0)
  ELSE Add(SumSeq(SubSeq(xs, 1, Len(xs) - 1)), xs[Len(xs)])

linear(data) ==
  LET len == Num(Len(data))
      sx == SumSeq([n \in 1..Len(data) |-> data[n][1]])
      sy == SumSeq([n \in 1..Len(data) |-> data[n][2]])
      sxx == SumSeq([n \in 1..Len(data) |-> Mul(data[n][1], data[n][1])])
      sxy == SumSeq([n \in 1..Len(data) |-> Mul(data[n][1], data[n][2])])
      run == Sub(Mul(len, sxx), Mul(sx, sx))
      rise == Sub(Mul(len, sxy), Mul(sx, sy))
      gradient == IF run = Num(0) THEN Num(0) ELSE round(Div(rise, run), precision)
      intercept == round(Sub(Div(sy, len), Div(Mul(gradient, sx), len)), precision)
  IN  [equation |-> <<gradient, intercept>>]

\* result.predict(x)[1]: the second component of the predicted point.
predict(result, x) ==
  round(Add(Mul(result.equation[1], x), result.equation[2]), precision)

(***************************************************************************)
(* The render: everything App computes from the rows.                      *)
(***************************************************************************)
\* validRows: rows.filter(rowIsValid)
validRows(rs) == SelectSeq(rs, rowIsValid)

IsIncluded(r) == r.includeInRegression

\* Mutant of regressionInput: the include flag is not looked at.
regressionInput_IgnoringFlag(rs) ==
  LET vr == validRows(rs)
  IN  [i \in 1..Len(vr) |->
         <<vr[i].pulseWidth,
           Div(Mul(Num(1000), vr[i].totalMass), vr[i].injections)>>]

\* the points handed to regression.linear:
\* validRows.filter(r => r.includeInRegression)
\*          .map(d => [d.pulseWidth, 1e3 * d.totalMass / d.injections])
regressionInput(rs) ==
  LET inc == SelectSeq(validRows(rs), IsIncluded)
  IN  [i \in 1..Len(inc) |->
         <<inc[i].pulseWidth,
           Div(Mul(Num(1000), inc[i].totalMass), inc[i].injections)>>]

regressionResult(rs) == linear(regressionInput(rs))

\* Mutant of flowRate: the intercept is taken for the slope.
flowRate_FromIntercept(rs) == regressionResult(rs).equation[2]

\* const flowRate = regressionResult.equation[0]
flowRate(rs) == regressionResult(rs).equation[1]

\* Mutant of deadtime: the intercept is not negated.
deadtime_NotNegated(rs) == Div(regressionResult(rs).equation[2], flowRate(rs))

\* const deadtime = -regressionResult.equation[1] / flowRate
deadtime(rs) == Div(Neg(regressionResult(rs).equation[2]), flowRate(rs))

\* One entry of dataForPlot, for a valid row.
plotPoint(rs, row) ==
  LET massPerPulse == Div(row.totalMass, row.injections)
      actualMassMg == Div(Mul(Num(1000), row.totalMass), row.injections)
      modelMass == predict(regressionResult(rs), row.pulseWidth)
      pctError == Div(Mul(Num(100), Sub(modelMass, actualMassMg)), actualMassMg)
      modelPulse == Div(Mul(Num(1000), massPerPulse), flowRate(rs))
      smallPulseAdder == Sub(Sub(row.pulseWidth, deadtime(rs)), modelPulse)
  IN  [pulseWidth |-> row.pulseWidth,
       massPerPulse |-> Mul(Num(1000), massPerPulse),
       err |-> pctError,
       modelMass |-> modelMass,
       modelPulse |-> modelPulse,
       smallPulseAdder |-> smallPulseAdder]

dataForPlot(rs) ==
  LET vr == validRows(rs)
  IN  [i \in 1..Len(vr) |-> plotPoint(rs, vr[i])]

\* const isLastRow = index === rows.length - 1
isLastRow(rs, index) == index = Len(rs)

\* One entry of tableRows: the three computed cells of row index, computed
\* for every row of the store, and whether the row is the last one.
tableRow(rs, index) ==
  LET row == rs[index]
      actualMassMg == Div(Mul(Num(1000), row.totalMass), row.injections)
      modelMass == predict(regressionResult(rs), row.pulseWidth)
      pctError == Div(Mul(Num(100), Sub(modelMass, actualMassMg)), actualMassMg)
  IN  [actualMassMg |-> actualMassMg,
       modelMass |-> modelMass,
       pctError |-> pctError,
       massPerText |-> formatRowValue(actualMassMg),
       estMassPerText |-> formatRowValue(modelMass),
       modelErrText |-> formatRowValue(pctError),
       isLastRow |-> isLastRow(rs, index)]

tableRows(rs) == [i \in 1..Len(rs) |-> tableRow(rs, i)]

\* g/s to cc/min factor used in the summary
\* (83.333 in the source, kept as the exact decimal 83333/1000)
CcPerMinFactor == Fin(83333, 1000)

\* The texts of the summary and of the small pulse correction table.
summary(rs) ==
  LET plot == dataForPlot(rs)
  IN  [flowRateText |-> toFixed(flowRate(rs), 2),
       flowRateCcText |-> toFixed(Mul(CcPerMinFactor, flowRate(rs)), 1),
       deadtimeText |-> toFixed(deadtime(rs), 2),
       smallPulseAdderTexts |->
         [i \in 1..Len(plot) |-> toFixed(plot[i].smallPulseAdder, 3)],
       modelPulseTexts |->
         [i \in 1..Len(plot) |-> toFixed(plot[i].modelPulse, 3)]]

(***************************************************************************)
(* The row store and its handlers.                                         *)
(*   rows    the React state: the sequence of rows (index 1 is row 0)      *)
(*   nextId  the module-level id counter.  The source also advances it on  *)
(*           every render, where the argument of useState([makeRow()]) is  *)
(*           evaluated again and its row discarded; the model counts only  *)
(*           the rows that enter the store, which renames the ids by an    *)
(*           order-preserving map (equality and order of ids are kept).    *)
(*   focus   the index of the row whose totalMass input holds the focus,   *)
(*           0 when no totalMass input does                                *)
(***************************************************************************)
Fields == {"injections", "pulseWidth", "totalMass"}

\* Raw texts typed into the inputs of Spec: every field can be given the
\* number 2; totalMass can also be emptied (which parses to NaN) or given
\* the text Infinity.
RawInputs(field) ==
  IF field = "totalMass"
    THEN {<<>>, <<"2">>, InfinityLiteral}
    ELSE {<<"2">>}

\* Mutant of handleInputChange: the field is assigned in every row.
handleInputChange_InEveryRow(rs, index, field, value) ==
  [i \in 1..Len(rs) |-> [rs[i] EXCEPT ![field] = parseFloat(value)]]

\* handleInputChange(index, mutateRow, value): mutateRow assigns
\* parseFloat(value) to one field of the row at index.
handleInputChange(rs, index, field, value) ==
  [rs EXCEPT ![index][field] = parseFloat(value)]

\* handleInclude(index, value)
handleInclude(rs, index, value) ==
  [rs EXCEPT ![index].includeInRegression = value]

\* Mutant of removeRow: the last row is dropped, whatever the index.
removeRow_DroppingLast(rs, index) == SubSeq(rs, 1, Len(rs) - 1)

\* removeRow(index): rows.filter((_, i) => i !== index)
removeRow(rs, index) ==
  [i \in 1..(Len(rs) - 1) |-> IF i < index THEN rs[i] ELSE rs[i + 1]]

\* Mutant of addRow: the new row's id is the row count, not the counter.
addRow_IdFromLength(rs, id) == Append(rs, makeRow(Len(rs)))

\* addRow(): setRows([...rows, makeRow()])
addRow(rs, id) == Append(rs, makeRow(id))

\* Mutant of RemoveButtonShown: the remove button on every row.
RemoveButtonShown_OnEveryRow(rs, index) == TRUE

\* The remove button is rendered on every row but the last, which carries
\* the Add Row button instead.
RemoveButtonShown(rs, index) == ~isLastRow(rs, index)

\* Mutant of onBlurAppends: the validity of the row is not looked at.
onBlurAppends_WithoutValidity(rs, index) == isLastRow(rs, index)

\* Mutant of onBlurAppends: the position of the row is not looked at.
onBlurAppends_OnAnyRow(rs, index) == rowIsValid(rs[index])

\* The totalMass input's onBlur: when the row is the last one and is valid,
\* addRow().
onBlurAppends(rs, index) == isLastRow(rs, index) /\ rowIsValid(rs[index])

Init ==
  /\ rows = <<makeRow(0)>>
  /\ nextId = 1
  /\ focus = 0

\* The user types value into a field of row index.  Typing into a totalMass
\* input needs it focused; typing elsewhere needs no totalMass input focused
\* (leaving one fires its onBlur first).
Change(index, field, value) ==
  /\ index \in 1..Len(rows)
  /\ IF field = "totalMass" THEN focus = index ELSE focus = 0
  /\ rows' = handleInputChange(rows, index, field, value)
  /\ UNCHANGED <<nextId, focus>>

\* The user clicks the checkbox of row index: onChange gets the new checked
\* state, the negation of the one rendered.
ToggleInclude(index) ==
  /\ index \in 1..Len(rows)
  /\ focus = 0
  /\ rows' = handleInclude(rows, index, ~rows[index].includeInRegression)
  /\ UNCHANGED <<nextId, focus>>

\* The user clicks the remove button of row index.  The row count changes,
\* so the effect focuses the last row's injections input.
ClickRemove(index) ==
  /\ index \in 1..Len(rows)
  /\ RemoveButtonShown(rows, index)
  /\ focus = 0
  /\ rows' = removeRow(rows, index)
  /\ focus' = 0
  /\ UNCHANGED nextId

\* The user clicks the Add Row button (on the last row).
ClickAddRow ==
  /\ focus = 0
  /\ Len(rows) < MaxRows
  /\ nextId < MaxIds
  /\ rows' = addRow(rows, nextId)
  /\ nextId' = nextId + 1
  /\ focus' = 0

\* The user moves the focus into the totalMass input of row index.
FocusTotalMass(index) ==
  /\ index \in 1..Len(rows)
  /\ focus = 0
  /\ focus' = index
  /\ UNCHANGED <<rows, nextId>>

\* The totalMass input of row index loses the focus.
BlurTotalMass(index) ==
  /\ index \in 1..Len(rows)
  /\ focus = index
  /\ IF onBlurAppends(rows, index)
       THEN /\ Len(rows) < MaxRows
            /\ nextId < MaxIds
            /\ rows' = addRow(rows, nextId)
            /\ nextId' = nextId + 1
       ELSE UNCHANGED <<rows, nextId>>
  /\ focus' = 0

Next ==
  \/ \E index \in 1..MaxRows, field \in Fields : \E value \in RawInputs(field) :
       Change(index, field, value)
  \/ \E index \in 1..MaxRows : ToggleInclude(index)
  \/ \E index \in 1..MaxRows : ClickRemove(index)
  \/ ClickAddRow
  \/ \E index \in 1..MaxRows : FocusTotalMass(index)
  \/ \E index \in 1..MaxRows : BlurTotalMass(index)

Spec == Init /\ [][Next]_vars

(***************************************************************************)
(* SpecCalc: the render pipeline on stores of measured data.  The initial  *)
(* store is any store a session of data entry can have produced, drawn     *)
(* from bounded sets of raw texts: one row with each field absent, empty,  *)
(* zero, infinite or a measurement, or up to MaxCalcRows rows of           *)
(* measurements (injections possibly still absent).  The handlers that     *)
(* keep the entered values (include checkbox, remove button) then act.     *)
(***************************************************************************)
\* Most rows of an initial store of SpecCalc.
MaxCalcRows == 3

\* Marks a field that was never typed into.
Untouched == <<"untouched">>

CalcInjectionsRaw == {<<"1", "0">>}
CalcPulseWidthRaw == {<<"1">>, <<"2">>, <<"4">>}
CalcTotalMassRaw == {<<".", "0", "2">>, <<".", "0", "6">>}
CalcInvalidRaw == {Untouched, <<>>, <<"0">>, InfinityLiteral}

\* The row with the given id after the three raw texts were typed into it.
EnteredRow(id, rawInjections, rawPulseWidth, rawTotalMass) ==
  LET typed(rs, field, raw) ==
        IF raw = Untouched THEN rs ELSE handleInputChange(rs, 1, field, raw)
      r0 == <<makeRow(id)>>
      r1 == typed(r0, "injections", rawInjections)
      r2 == typed(r1, "pulseWidth", rawPulseWidth)
      r3 == typed(r2, "totalMass", rawTotalMass)
  IN  r3[1]

\* Rows of the one-row initial stores.
CalcSingleRows ==
  { EnteredRow(0, a, b, c) :
      a \in CalcInjectionsRaw \cup CalcInvalidRaw,
      b \in {<<"2">>} \cup CalcInvalidRaw,
      c \in {<<".", "0", "2">>} \cup CalcInvalidRaw }

\* Rows of the initial stores of several rows, for the row of index i.
CalcDataRows(i) ==
  { EnteredRow(i - 1, a, b, c) :
      a \in CalcInjectionsRaw \cup {Untouched},
      b \in CalcPulseWidthRaw,
      c \in CalcTotalMassRaw }

\* The stores of exactly len rows of measurements.
RECURSIVE CalcDataStores(_)
CalcDataStores(len) ==
  IF len = 0 THEN {<<>>}
  ELSE { Append(rs, r) : rs \in CalcDataStores(len - 1), r \in CalcDataRows(len) }

\* The initial stores of at most max rows.
CalcStores(max) ==
  { <<r>> : r \in CalcSingleRows }
    \cup UNION { CalcDataStores(len) : len \in 2..max }

InitCalc ==
  /\ rows \in CalcStores(MaxCalcRows)
  /\ nextId = Len(rows)
  /\ focus = 0

NextCalc ==
  \/ \E index \in 1..MaxCalcRows : ToggleInclude(index)
  \/ \E index \in 1..MaxCalcRows : ClickRemove(index)

SpecCalc == InitCalc /\ [][NextCalc]_vars

(***************************************************************************)
(* SpecLine: the render pipeline on stores of measurements with decimals,  *)
(* where the two-decimal rounding inside the regression package shows.     *)
(* The initial store is 2 to MaxLineRows rows, each entered from one of a  *)
(* few measurements of 1000 injections; the include checkbox and the       *)
(* remove button then act.                                                 *)
(***************************************************************************)
\* Most rows of an initial store of SpecLine.
MaxLineRows == 3

\* The measurements: raw texts of pulse width (ms) and total mass (g).
LineMeasurements ==
  { <<<<"1">>, <<"2">>>>,
    <<<<"3">>, <<"6">>>>,
    <<<<"2">>, <<"4">>>>,
    <<<<"2">>, <<"4", ".", "0", "0", "1">>>>,
    <<<<".", "2", "5">>, <<".", "5", "0", "2", "5">>>>,
    <<<<"1", ".", "2", "5">>, <<"2", ".", "5", "1", "2", "5">>>> }

\* Rows of the initial stores of SpecLine, for the row of index i.
LineRows(i) ==
  { EnteredRow(i - 1, <<"1", "0", "0", "0">>, m[1], m[2]) : m \in LineMeasurements }

\* The stores of exactly len such rows.
RECURSIVE LineStoresOfLen(_)
LineStoresOfLen(len) ==
  IF len = 0 THEN {<<>>}
  ELSE { Append(rs, r) : rs \in LineStoresOfLen(len - 1), r \in LineRows(len) }

\* The initial stores of 2 to max rows.
LineStores(max) == UNION { LineStoresOfLen(len) : len \in 2..max }

InitLine ==
  /\ rows \in LineStores(MaxLineRows)
  /\ nextId = Len(rows)
  /\ focus = 0

NextLine ==
  \/ \E index \in 1..MaxLineRows : ToggleInclude(index)
  \/ \E index \in 1..MaxLineRows : ClickRemove(index)

SpecLine == InitLine /\ [][NextLine]_vars

(***************************************************************************)
(* Properties.                                                             *)
(***************************************************************************)
IsBlank(row) ==
  /\ row.injections = Undefined
  /\ row.pulseWidth = Undefined
  /\ row.totalMass = Undefined
  /\ row.includeInRegression

\* The valid rows that take part in the regression.
IncludedValid(rs) == {i \in 1..Len(rs) : rowIsValid(rs[i]) /\ rs[i].includeInRegression}

\* C1: the store always holds at least one row, and in a store of exactly
\* one row no removal can happen (the only row carries no remove button),
\* so the store is left as it is.
C1_AtLeastOneRow ==
  /\ Len(rows) >= 1
  /\ Len(rows) = 1 => \A index \in 1..MaxRows : ~ENABLED ClickRemove(index)

\* C1 witness: a single row is left after rows were appended and the
\* original row 0 was removed.
C1_Witness == Len(rows) = 1 /\ rows[1].id # 0

C3_ValidIffDefinedNonZeroFinite ==
  \A i \in 1..Len(rows) :
    rowIsValid(rows[i]) <=>
      \A f \in Fields : IsFinite(rows[i][f]) /\ rows[i][f] # Num(0)

\* The pairs the claim names: (pulseWidth, 1000 * totalMass / injections) of
\* the rows of index in idx, in store order.
RECURSIVE PairsOf(_, _, _)
PairsOf(rs, idx, upTo) ==
  IF upTo = 0 THEN <<>>
  ELSE LET rest == PairsOf(rs, idx, upTo - 1)
       IN  IF upTo \in idx
             THEN Append(rest, <<rs[upTo].pulseWidth,
                                 Div(Mul(Num(1000), rs[upTo].totalMass),
                                     rs[upTo].injections)>>)
             ELSE rest

\* Other values a field of a row outside the fit may hold.
C4_OtherValues == {NaN, Num(3), Fin(1, 25)}

\* C4: the regression is fitted over exactly the pairs of the valid rows
\* with the include flag set, in store order; deleting a row that is invalid
\* or has the flag cleared, or giving one of its fields another value that
\* keeps it out of the fit, leaves the fit as it is.
C4_FitOverIncludedValidRowsOnly ==
  /\ regressionInput(rows) = PairsOf(rows, IncludedValid(rows), Len(rows))
  /\ \A i \in (1..Len(rows)) \ IncludedValid(rows) :
       /\ Len(rows) > 1 => regressionResult(removeRow(rows, i)) = regressionResult(rows)
       /\ \A f \in Fields : \A v \in C4_OtherValues :
            LET other == [rows EXCEPT ![i][f] = v]
            IN  i \notin IncludedValid(other)
                  => regressionResult(other) = regressionResult(rows)

\* C4 witness: a valid row has had its flag cleared, next to two included
\* valid rows that give a fit of non-zero slope.
C4_Witness ==
  /\ Len(rows) = 3
  /\ \E i \in 1..Len(rows) : rowIsValid(rows[i]) /\ ~rows[i].includeInRegression
  /\ Cardinality(IncludedValid(rows)) = 2
  /\ IsFinite(flowRate(rows)) /\ flowRate(rows) # Num(0)

\* C5 as stated, in what the consumer sees of it: an incomplete row takes no
\* part in any computation, so its three computed cells are blank.
C5_IncompleteRowNotComputed ==
  \A i \in 1..Len(rows) :
    ~rowIsValid(rows[i]) =>
      /\ tableRows(rows)[i].massPerText = ""
      /\ tableRows(rows)[i].estMassPerText = ""
      /\ tableRows(rows)[i].modelErrText = ""

\* Sum of the numbers xs[1..upTo].
RECURSIVE Total(_, _)
Total(xs, upTo) == IF upTo = 0 THEN Num(0) ELSE Add(Total(xs, upTo - 1), xs[upTo])

\* The closed-form least-squares line through pts (a sequence of pairs):
\* slope = (n Sxy - Sx Sy) / (n Sxx - Sx^2), intercept = mean(y) - slope mean(x).
OlsSlope(pts) ==
  LET n == Num(Len(pts))
      Sx == Total([i \in 1..Len(pts) |-> pts[i][1]], Len(pts))
      Sy == Total([i \in 1..Len(pts) |-> pts[i][2]], Len(pts))
      Sxx == Total([i \in 1..Len(pts) |-> Mul(pts[i][1], pts[i][1])], Len(pts))
      Sxy == Total([i \in 1..Len(pts) |-> Mul(pts[i][1], pts[i][2])], Len(pts))
  IN  Div(Sub(Mul(n, Sxy), Mul(Sx, Sy)), Sub(Mul(n, Sxx), Mul(Sx, Sx)))

OlsIntercept(pts) ==
  LET n == Num(Len(pts))
      Sx == Total([i \in 1..Len(pts) |-> pts[i][1]], Len(pts))
      Sy == Total([i \in 1..Len(pts) |-> pts[i][2]], Len(pts))
  IN  Sub(Div(Sy, n), Mul(OlsSlope(pts), Div(Sx, n)))

\* Pulse widths the line is evaluated at, inside and outside the measured range.
C6_Abscissas == {Num(0), Num(3), Num(8), Fin(1, 4)}

\* C6 as stated: with at least two included points of differing pulse width
\* the fit is the closed-form least-squares line, and predict evaluates it
\* at any x.
C6_FitIsClosedFormLeastSquares ==
  LET pts == PairsOf(rows, IncludedValid(rows), Len(rows))
      fit == regressionResult(rows)
  IN  ( /\ Len(pts) >= 2
        /\ \A i \in 1..Len(pts) : IsFinite(pts[i][1]) /\ IsFinite(pts[i][2])
        /\ \E i, j \in 1..Len(pts) : pts[i][1] # pts[j][1] )
      => /\ fit.equation[1] = OlsSlope(pts)
         /\ fit.equation[2] = OlsIntercept(pts)
         /\ \A x \in C6_Abscissas :
              predict(fit, x) = Add(Mul(fit.equation[1], x), fit.equation[2])

\* The two rows of the end-to-end scenario: 10 injections of 2 ms giving
\* 0.02 g, and 10 injections of 4 ms giving 0.06 g, both included.
C7_Scenario ==
  /\ Len(rows) = 2
  /\ \A i \in 1..2 : rows[i].injections = Num(10) /\ rows[i].includeInRegression
  /\ rows[1].pulseWidth = Num(2) /\ rows[1].totalMass = Fin(2, 100)
  /\ rows[2].pulseWidth = Num(4) /\ rows[2].totalMass = Fin(6, 100)

\* C7: the summary is derived from the current fit: the flow rate is the
\* slope, the cc/min figure is 83.333 times the slope, the deadtime is
\* -intercept / slope (where the slope is finite and not zero, the pulse
\* width at which the line crosses zero); the scenario gives 2 and 6 mg per
\* pulse, slope 2, intercept -2, deadtime 1 and 166.7 cc/min.
C7_SummaryFromFit ==
  LET fit == regressionResult(rows)
      slope == fit.equation[1]
      intercept == fit.equation[2]
  IN  /\ flowRate(rows) = slope
      /\ summary(rows).flowRateCcText = toFixed(Mul(Fin(83333, 1000), slope), 1)
      /\ deadtime(rows) = Div(Neg(intercept), slope)
      /\ (IsFinite(slope) /\ slope # Num(0) /\ IsFinite(intercept))
           => Add(Mul(slope, deadtime(rows)), intercept) = Num(0)
      /\ C7_Scenario
           => /\ tableRows(rows)[1].actualMassMg = Num(2)
              /\ tableRows(rows)[2].actualMassMg = Num(6)
              /\ slope = Num(2)
              /\ intercept = Num(-2)
              /\ deadtime(rows) = Num(1)
              /\ summary(rows).flowRateCcText = "166.7"

\* C7 witness: the store holds the scenario's two rows.
C7_Witness == C7_Scenario /\ flowRate(rows) = Num(2)

\* C8 as stated: with at most one included valid row, or with all of them at
\* one pulse width, the deadtime and every row's percent error are NaN.
C8_DegenerateFitGivesNaN ==
  LET inc == IncludedValid(rows)
  IN  ( \/ Cardinality(inc) <= 1
        \/ \A i, j \in inc : rows[i].pulseWidth = rows[j].pulseWidth )
      => /\ IsNaN(deadtime(rows))
         /\ \A i \in 1..Len(rows) : IsNaN(tableRows(rows)[i].pctError)

\* Every text of a derived value that the render shows.
ShownTexts ==
  LET t == tableRows(rows)
      sm == summary(rows)
  IN  {t[i].massPerText : i \in 1..Len(rows)}
        \cup {t[i].estMassPerText : i \in 1..Len(rows)}
        \cup {t[i].modelErrText : i \in 1..Len(rows)}
        \cup {sm.flowRateText, sm.flowRateCcText, sm.deadtimeText}
        \cup {sm.smallPulseAdderTexts[i] : i \in 1..Len(sm.smallPulseAdderTexts)}
        \cup {sm.modelPulseTexts[i] : i \in 1..Len(sm.modelPulseTexts)}

\* C9 as stated: no derived value is ever shown as the text NaN.
C9_NaNNeverShown == "NaN" \notin ShownTexts

\* Row i is valid and its point lies exactly on the fitted line, whose slope
\* is finite and not zero.
OnFittedLine(i) ==
  LET fit == regressionResult(rows)
      row == rows[i]
  IN  /\ rowIsValid(row)
      /\ IsFinite(fit.equation[1]) /\ fit.equation[1] # Num(0)
      /\ IsFinite(fit.equation[2])
      /\ Div(Mul(Num(1000), row.totalMass), row.injections)
           = Add(Mul(fit.equation[1], row.pulseWidth), fit.equation[2])

\* The dataForPlot entry of the valid row i.
PlotOf(i) == plotPoint(rows, rows[i])

\* C10 as stated: for a valid row on the fitted line the modeled pulse width
\* equals the row's pulse width.
C10_ModelPulseIsPulseWidth ==
  \A i \in 1..Len(rows) :
    OnFittedLine(i) => PlotOf(i).modelPulse = rows[i].pulseWidth

\* C10 amended: for a valid row on the fitted line (slope finite and not
\* zero) the modeled pulse width equals the row's pulse width less the
\* deadtime, so the small pulse adder is 0; it equals the pulse width itself
\* exactly when the intercept is 0.
C10_ModelPulseIsPulseWidthLessDeadtime ==
  \A i \in 1..Len(rows) :
    OnFittedLine(i) =>
      /\ PlotOf(i).modelPulse = Sub(rows[i].pulseWidth, deadtime(rows))
      /\ PlotOf(i).smallPulseAdder = Num(0)
      /\ (PlotOf(i).modelPulse = rows[i].pulseWidth
            <=> regressionResult(rows).equation[2] = Num(0))

\* C10 witness: a row on a fitted line of non-zero intercept.
C10_Witness ==
  \E i \in 1..Len(rows) :
    OnFittedLine(i) /\ regressionResult(rows).equation[2] # Num(0)

\* Row i is valid and its (pulseWidth, mass per pulse) point lies exactly on
\* the line of the current fit.
C11_OnLine(i) ==
  LET fit == regressionResult(rows)
      row == rows[i]
  IN  /\ rowIsValid(row)
      /\ IsFinite(fit.equation[1]) /\ IsFinite(fit.equation[2])
      /\ Div(Mul(Num(1000), row.totalMass), row.injections)
           = Add(Mul(fit.equation[1], row.pulseWidth), fit.equation[2])

\* C11 as stated: for a valid row on the fitted line the percent error,
\* 100 * (predict(pulseWidth) - actual) / actual, is 0, in the table and in
\* the plot data.
C11_OnLinePercentErrorIsZero ==
  \A i \in 1..Len(rows) :
    C11_OnLine(i) =>
      /\ tableRows(rows)[i].pctError
           = Div(Mul(Num(100), Sub(predict(regressionResult(rows), rows[i].pulseWidth),
                                   tableRows(rows)[i].actualMassMg)),
                 tableRows(rows)[i].actualMassMg)
      /\ tableRows(rows)[i].pctError = Num(0)
      /\ PlotOf(i).err = Num(0)

\* The included valid row i does not lie on the least-squares line of the
\* other included valid rows, which are at least two of differing pulse
\* width.
C12_NotCollinearWithRest(i) ==
  LET pts == PairsOf(rows, IncludedValid(rows) \ {i}, Len(rows))
      y == Div(Mul(Num(1000), rows[i].totalMass), rows[i].injections)
  IN  /\ i \in IncludedValid(rows)
      /\ Len(pts) >= 2
      /\ \E a, b \in 1..Len(pts) : pts[a][1] # pts[b][1]
      /\ y # Add(Mul(OlsSlope(pts), rows[i].pulseWidth), OlsIntercept(pts))

\* C12 as stated: clearing the include flag of a valid row that is not
\* collinear with the other included valid rows gives a fit different from
\* the one with the row included, and changes nothing of the store but
\* that flag.
C12_ExcludingOffLineRowChangesFit ==
  \A i \in 1..Len(rows) :
    C12_NotCollinearWithRest(i) =>
      LET without == handleInclude(rows, i, FALSE)
      IN  /\ regressionResult(without) # regressionResult(rows)
          /\ Len(without) = Len(rows)
          /\ \A j \in 1..Len(rows) :
               /\ without[j].id = rows[j].id
               /\ \A f \in Fields : without[j][f] = rows[j][f]
               /\ j # i => without[j] = rows[j]

C14_LastRowIsOpen == ~rowIsValid(rows[Len(rows)])

\* The store rs without its row of index index, the others as they were.
C15_Without(rs, index) ==
  [j \in 1..(Len(rs) - 1) |-> IF j < index THEN rs[j] ELSE rs[j + 1]]

C16_Parsed(value) ==
  CASE value = <<>> -> NaN
    [] value = <<"2">> -> Num(2)
    [] value = InfinityLiteral -> Inf(1)

\* C16: an update assigns the parsed number (NaN for a text that does not
\* parse) to the named field of the addressed row; the row's other fields,
\* id and flag, every other row, the order and the row count are unchanged.
C16_UpdateAssignsOneField ==
  [][ \A index \in 1..Len(rows) : \A field \in Fields :
        \A value \in RawInputs(field) :
          Change(index, field, value) =>
            /\ rows'[index][field] = C16_Parsed(value)
            /\ \A f \in Fields \ {field} : rows'[index][f] = rows[index][f]
            /\ rows'[index].id = rows[index].id
            /\ rows'[index].includeInRegression = rows[index].includeInRegression
            /\ Len(rows') = Len(rows)
            /\ \A j \in (1..Len(rows)) \ {index} : rows'[j] = rows[j] ]_vars

\* C16 witness: next to another row that holds values, a row has taken a
\* number and then NaN, from a text that does not parse.
C16_Witness ==
  /\ Len(rows) >= 2
  /\ rows[1].injections = Num(2) /\ rows[1].totalMass = Num(2)
  /\ rows[2].injections = Num(2) /\ rows[2].totalMass = NaN

\* C17: the ids of the rows in the store are pairwise distinct (and below
\* the counter); a step keeps the id of every row it keeps, in order; an
\* appended row gets the counter's value, which no row had before, and
\* starts with no fields and the include flag set.
C17_IdsUniqueAndStable ==
  /\ [](\A i, j \in 1..Len(rows) :
          /\ rows[i].id < nextId
          /\ i # j => rows[i].id # rows[j].id)
  /\ [][ /\ Len(rows') = Len(rows)
             => \A i \in 1..Len(rows) : rows'[i].id = rows[i].id
         /\ Len(rows') > Len(rows)
             => /\ Len(rows') = Len(rows) + 1
                /\ \A i \in 1..Len(rows) : rows'[i].id = rows[i].id
                /\ rows'[Len(rows')].id >= nextId
                /\ nextId' > rows'[Len(rows')].id
                /\ IsBlank(rows'[Len(rows')])
         /\ Len(rows') < Len(rows)
             => \E index \in 1..Len(rows) :
                  \A j \in 1..Len(rows') :
                    rows'[j].id = C15_Without(rows, index)[j].id ]_vars

\* C17 witness: row 0 was removed and a row appended afterwards, which got
\* a new id.
C17_Witness ==
  /\ Len(rows) = 2
  /\ rows[1].id = 1 /\ rows[2].id = 2

====
